---- MODULE Spec2Model ----
(***************************************************************************)
(* Model of logging-middleware/logger.js: logEvent validates a log event   *)
(* against the static allow-lists, builds the JSON payload and issues one  *)
(* POST with fetch; createLogger returns a handle whose five methods echo  *)
(* to the console (warn/error/fatal) and then call logEvent.               *)
(*                                                                         *)
(* JavaScript runs each call to completion up to its next await, so one    *)
(* action is one synchronous segment of a call: the entry of the call up   *)
(* to `await fetch`, the continuation after the fetch promise settles, and *)
(* the continuation after the response.text() promise settles.             *)
(***************************************************************************)
EXTENDS Integers, Sequences, FiniteSets, TLC

VARIABLES
    ACCESS_TOKEN,   \* process.env.ACCESS_TOKEN, read once at module load
    clock,          \* the wall clock, in ticks
    calls,          \* one record per call started, in the order of the calls
    requests        \* the requests handed to fetch, in the order of the fetch calls

vars == <<ACCESS_TOKEN, clock, calls, requests>>

----------------------------------------------------------------------------
(* Bounds of the model *)

MaxCalls == 1       \* calls started under Spec and SpecTime
ConcCalls == 2      \* calls started under SpecConc
PairCalls == 2      \* calls started under SpecPair
MaxTicks == 2       \* ticks of the wall clock
MsPerTick == 700    \* milliseconds in one tick of the wall clock

----------------------------------------------------------------------------
(* Module-level constants of logger.js *)

EVALUATION_SERVICE_URL == "http://20.244.56.144/evaluation-service/logs"

ALLOWED_STACKS == <<"backend", "frontend">>

ALLOWED_LEVELS == <<"debug", "info", "warn", "error", "fatal">>

ALLOWED_PACKAGES ==
    [backend |-> <<"cache", "controller", "cron_job", "db", "domain", "handler",
                   "repository", "route", "service", "auth", "config", "middleware">>,
     frontend |-> <<"api", "component", "hook", "page", "style", "auth", "config",
                    "middleware">>]

----------------------------------------------------------------------------
(* The JavaScript values and library functions the code uses *)

\* An optional value (a value that may be undefined) is a sequence of length 0 or 1.
undefined == <<>>

\* Array.prototype.includes
includes(arr, x) == \E i \in DOMAIN arr : arr[i] = x

\* obj[key] of a plain object: undefined for a key the object does not have
lookup(obj, key) == IF key \in DOMAIN obj THEN <<obj[key]>> ELSE undefined

\* (variant) only an undefined token counts as missing
falsy_undefinedOnly(v) == v = undefined

\* !v of an optional string: undefined and the empty string are falsy
falsy(v) == v = undefined \/ v[1] = ""

\* new Date().toISOString(): the fields of the ISO-8601 rendering of a time of day
toISOString(ms) ==
    [year |-> 1970, month |-> 1, day |-> 1 + (ms \div 86400000),
     hour |-> (ms \div 3600000) % 24, minute |-> (ms \div 60000) % 60,
     second |-> (ms \div 1000) % 60, milli |-> ms % 1000]

\* Date.parse of such a rendering: milliseconds since the epoch
Date_parse(iso) ==
    (iso.day - 1) * 86400000 + iso.hour * 3600000 + iso.minute * 60000
        + iso.second * 1000 + iso.milli

\* Date.now(): the wall clock in milliseconds
Date_now(ticks) == ticks * MsPerTick

\* JSON.stringify of an object with the given keys, in insertion order: the
\* sequence of its members
JSON_stringify(keys, obj) == [i \in DOMAIN keys |-> <<keys[i], obj[keys[i]]>>]

\* JSON.parse: the object a sequence of members denotes (of two members with
\* the same key the later one wins)
JSON_parse(body) ==
    [k \in {body[i][1] : i \in DOMAIN body} |->
        body[CHOOSE i \in DOMAIN body :
                 /\ body[i][1] = k
                 /\ \A j \in DOMAIN body : body[j][1] = k => j <= i][2]]

\* Response.ok
ok(status) == status >= 200 /\ status <= 299

statusText(status) ==
    CASE status = 200 -> "OK"
      [] status = 201 -> "Created"
      [] status = 500 -> "Internal Server Error"
      [] OTHER -> ""

----------------------------------------------------------------------------
(* What a call does is recorded in its trace: the console lines it writes, *)
(* the fetch it issues and the promises it awaits, in program order.       *)

console_error(args) == [op |-> "console.error", args |-> args]

console_warn(args) == [op |-> "console.warn", args |-> args]

fetch(url, init) == [op |-> "fetch", args |-> <<url, init>>]

await(what) == [op |-> "await", args |-> <<what>>]

\* (variant) the package is looked up in the allow-lists of both stacks
packageAllowed_anyStack(stack, packageName) ==
    includes(ALLOWED_PACKAGES.backend \o ALLOWED_PACKAGES.frontend, packageName)

\* logEvent, line 43: the package is in the allow-list of the stack
packageAllowed(stack, packageName) ==
    /\ lookup(ALLOWED_PACKAGES, stack) # undefined
    /\ includes(lookup(ALLOWED_PACKAGES, stack)[1], packageName)

\* (variant) the checks log but do not return: every failing check logs
validation_noReturn(stack, level, packageName) ==
    (IF ~includes(ALLOWED_STACKS, stack)
        THEN <<console_error(<<"Invalid stack: ", stack, ". Allowed: ", ALLOWED_STACKS>>)>>
        ELSE <<>>)
    \o (IF ~includes(ALLOWED_LEVELS, level)
        THEN <<console_error(<<"Invalid level: ", level, ". Allowed: ", ALLOWED_LEVELS>>)>>
        ELSE <<>>)
    \o (IF \/ lookup(ALLOWED_PACKAGES, stack) = undefined
           \/ ~includes(lookup(ALLOWED_PACKAGES, stack)[1], packageName)
        THEN <<console_error(<<"Invalid package: ", packageName, " for stack: ", stack,
                               ". Allowed: ", lookup(ALLOWED_PACKAGES, stack)>>)>>
        ELSE <<>>)

\* logEvent, lines 33-46: the three checks, in order; each one that fails logs
\* its diagnostic and returns. The result is what was logged (nothing: all pass).
validation(stack, level, packageName) ==
    IF ~includes(ALLOWED_STACKS, stack) THEN
        <<console_error(<<"Invalid stack: ", stack, ". Allowed: ", ALLOWED_STACKS>>)>>
    ELSE IF ~includes(ALLOWED_LEVELS, level) THEN
        <<console_error(<<"Invalid level: ", level, ". Allowed: ", ALLOWED_LEVELS>>)>>
    ELSE IF ~packageAllowed(stack, packageName) THEN
        <<console_error(<<"Invalid package: ", packageName, " for stack: ", stack,
                          ". Allowed: ", lookup(ALLOWED_PACKAGES, stack)>>)>>
    ELSE <<>>

\* (variant) the timestamp is computed once, when the module is loaded
logPayload_loadTime(stack, level, packageName, message, now) ==
    [stack |-> stack, level |-> level, package |-> packageName,
     message |-> message, timestamp |-> toISOString(Date_now(0))]

\* logEvent, lines 54-60: the payload; `now` is the clock read by new Date()
logPayload(stack, level, packageName, message, now) ==
    [stack |-> stack, level |-> level, package |-> packageName,
     message |-> message, timestamp |-> toISOString(Date_now(now))]

\* logEvent, lines 31-70: the synchronous segment from the entry of the call
\* to the first await. The result: the trace of the segment and where the call
\* stands after it.
logEvent_enter(stack, level, packageName, message, now) ==
    IF validation(stack, level, packageName) # <<>> THEN
        [trace |-> validation(stack, level, packageName), pc |-> "returned"]
    ELSE IF falsy(ACCESS_TOKEN) THEN
        [trace |-> <<console_error(
                        <<"ACCESS_TOKEN not found in environment variables">>)>>,
         pc |-> "returned"]
    ELSE
        LET init ==
                [method |-> "POST",
                 headers |-> [ContentType |-> "application/json",
                              Authorization |-> <<"Bearer ", ACCESS_TOKEN>>],
                 body |-> JSON_stringify(
                     <<"stack", "level", "package", "message", "timestamp">>,
                     logPayload(stack, level, packageName, message, now))]
        IN  [trace |-> <<fetch(EVALUATION_SERVICE_URL, init), await("fetch")>>,
             pc |-> "awaitFetch"]

\* (variant) the catch block logs and rethrows
logEvent_catch_rethrow(error) ==
    [trace |-> <<console_error(<<"Error sending log to evaluation service:",
                                 error.message>>)>>,
     pc |-> "threw"]

\* logEvent, lines 80-82: the catch block absorbs the error and the call returns
logEvent_catch(error) ==
    [trace |-> <<console_error(<<"Error sending log to evaluation service:",
                                 error.message>>)>>,
     pc |-> "returned"]

\* (variant) the status line is not logged before the body is read
logEvent_response_noStatusLine(response) ==
    IF ~ok(response.status) THEN
        [trace |-> <<await("response.text")>>, pc |-> "awaitText"]
    ELSE
        [trace |-> <<>>, pc |-> "returned"]

\* (variant) the body is read whatever the status
logEvent_response_alwaysReadsBody(response) ==
    [trace |-> (IF ~ok(response.status)
                   THEN <<console_error(<<"Logging failed: ", response.status, " ",
                                          statusText(response.status)>>)>>
                   ELSE <<>>)
               \o <<await("response.text")>>,
     pc |-> "awaitText"]

\* logEvent, lines 72-78: the continuation once the fetch promise is fulfilled
logEvent_response(response) ==
    IF ~ok(response.status) THEN
        [trace |-> <<console_error(<<"Logging failed: ", response.status, " ",
                                     statusText(response.status)>>),
                     await("response.text")>>,
         pc |-> "awaitText"]
    ELSE
        [trace |-> <<>>, pc |-> "returned"]

\* logEvent, line 75: the continuation once the response.text() promise is fulfilled
logEvent_text(errorText) ==
    [trace |-> <<console_error(<<"Response:", errorText>>)>>, pc |-> "returned"]

\* The promise of an async function: pending until the function returns, then
\* fulfilled; rejected if an error leaves the function.
settle(pc) ==
    CASE pc = "returned" -> "fulfilled"
      [] pc = "threw" -> "rejected"
      [] OTHER -> "pending"

----------------------------------------------------------------------------
(* createLogger, lines 91-114 *)

\* The handle closes over stack and packageName.
createLogger(stack, packageName) == [stack |-> stack, packageName |-> packageName]

\* What each method of the handle does before it awaits logEvent: the console
\* echo, and the level it passes to logEvent.
handle_debug(message) == [echo |-> <<>>, level |-> "debug"]

handle_info(message) == [echo |-> <<>>, level |-> "info"]

\* (variant) warn forwards with the level of error
handle_warn_asError(message) ==
    [echo |-> <<console_warn(<<"[WARN] ", message>>)>>, level |-> "error"]

handle_warn(message) == [echo |-> <<console_warn(<<"[WARN] ", message>>)>>, level |-> "warn"]

handle_error(message) == [echo |-> <<console_error(<<"[ERROR] ", message>>)>>, level |-> "error"]

\* (variant) fatal forwards without the console echo
handle_fatal_noEcho(message) == [echo |-> <<>>, level |-> "fatal"]

handle_fatal(message) == [echo |-> <<console_error(<<"[FATAL] ", message>>)>>, level |-> "fatal"]

----------------------------------------------------------------------------
(* State *)

NoHandle == <<>>

\* A call just started: `api` is the exported function or the handle method the
\* caller invoked, `handle` the handle it was invoked on (if any), `arg` the
\* message the caller passed; stack, level, packageName and message are the
\* arguments logEvent received, `response` the status the endpoint answered
\* (if it has), started and completed the clock at the call and at its return.
Frame(api, handle, arg, echo, stack, level, packageName, message, now) ==
    LET r == logEvent_enter(stack, level, packageName, message, now)
    IN  [api |-> api, handle |-> handle, arg |-> arg,
         stack |-> stack, level |-> level, packageName |-> packageName,
         message |-> message,
         trace |-> echo \o r.trace,
         pc |-> r.pc,
         promise |-> settle(r.pc),
         response |-> <<>>,
         started |-> now,
         completed |-> IF r.pc \in {"returned", "threw"} THEN <<now>> ELSE <<>>]

\* A call moves on by the segment result r, at clock reading `now`.
Advance(call, r, now) ==
    [call EXCEPT !.trace = @ \o r.trace,
                 !.pc = r.pc,
                 !.promise = settle(r.pc),
                 !.completed = IF r.pc \in {"returned", "threw"} THEN <<now>> ELSE <<>>]

\* The promise the caller holds: logEvent's own for a direct call; a handle method
\* is an async function that awaits logEvent's promise and then returns, so its
\* promise settles as logEvent's does.
callerPromise(call) ==
    IF call.handle = NoHandle THEN call.promise
    ELSE CASE call.promise = "fulfilled" -> "fulfilled"
           [] call.promise = "rejected" -> "rejected"
           [] OTHER -> "pending"

\* The requests a segment hands to fetch
fetched(trace) == SelectSeq(trace, LAMBDA e : e.op = "fetch")

Init ==
    /\ ACCESS_TOKEN \in {undefined, <<"">>, <<"secret-token">>}
    /\ clock = 0
    /\ calls = <<>>
    /\ requests = <<>>

----------------------------------------------------------------------------
(* The inputs the callers and the endpoint are drawn from *)

Stacks == {"backend", "frontend", "mobile"}

Levels == {"debug", "info", "warn", "error", "fatal", "trace"}

Packages == {"service", "page", "billing"}

Messages == {"started", "boom"}

Statuses == {200, 201, 500}

ErrorTexts == {"invalid token"}

FetchErrors == {[message |-> "fetch failed"]}

TextErrors == {[message |-> "terminated"]}

\* The universe of Spec: every input
Wide ==
    [calls |-> MaxCalls, stacks |-> Stacks, levels |-> Levels,
     packages |-> Packages, messages |-> Messages, statuses |-> Statuses]

\* The universe of SpecConc: concurrent calls over fewer inputs
Narrow ==
    [calls |-> ConcCalls, stacks |-> {"backend", "mobile"}, levels |-> {"info", "trace"},
     packages |-> {"service"}, messages |-> Messages, statuses |-> {200, 500}]

\* The universe of SpecTime: calls while the wall clock advances
Timed ==
    [calls |-> MaxCalls, stacks |-> {"backend", "mobile"}, levels |-> {"info", "trace"},
     packages |-> {"service", "page"}, messages |-> Messages, statuses |-> {200, 500}]

\* The universe of SpecPair: a handle method beside the logEvent call it stands for
Paired ==
    [calls |-> PairCalls, stacks |-> {"backend", "mobile"}, levels |-> Levels,
     packages |-> {"service", "page"}, messages |-> {"boom"}, statuses |-> {200, 500}]

----------------------------------------------------------------------------
(* Actions *)

\* (variant) a request equal to one already sent is not sent again
Begin_dedupe(frame) ==
    LET id == Len(calls) + 1
        sent == SelectSeq(fetched(frame.trace),
                          LAMBDA e : \A i \in DOMAIN requests :
                                        requests[i].init # e.args[2])
    IN  /\ calls' = Append(calls, frame)
        /\ requests' = requests \o
               [i \in DOMAIN sent |->
                   [call |-> id, url |-> sent[i].args[1], init |-> sent[i].args[2]]]
        /\ UNCHANGED <<ACCESS_TOKEN, clock>>

\* A call starts: its first synchronous segment runs, and what it hands to
\* fetch is on the network.
Begin(frame) ==
    LET id == Len(calls) + 1
        sent == fetched(frame.trace)
    IN  /\ calls' = Append(calls, frame)
        /\ requests' = requests \o
               [i \in DOMAIN sent |->
                   [call |-> id, url |-> sent[i].args[1], init |-> sent[i].args[2]]]
        /\ UNCHANGED <<ACCESS_TOKEN, clock>>

\* logEvent(stack, level, packageName, message) called by the application
logEvent(U) ==
    /\ Len(calls) < U.calls
    /\ \E stack \in U.stacks, level \in U.levels, packageName \in U.packages,
          message \in U.messages :
           Begin(Frame("logEvent", NoHandle, message, <<>>, stack, level,
                       packageName, message, clock))

\* createLogger(stack, packageName).debug(message)
debug(U) ==
    /\ Len(calls) < U.calls
    /\ \E stack \in U.stacks, packageName \in U.packages, message \in U.messages :
           LET h == createLogger(stack, packageName)
               m == handle_debug(message)
           IN  Begin(Frame("debug", <<h>>, message, m.echo, h.stack, m.level,
                           h.packageName, message, clock))

\* createLogger(stack, packageName).info(message)
info(U) ==
    /\ Len(calls) < U.calls
    /\ \E stack \in U.stacks, packageName \in U.packages, message \in U.messages :
           LET h == createLogger(stack, packageName)
               m == handle_info(message)
           IN  Begin(Frame("info", <<h>>, message, m.echo, h.stack, m.level,
                           h.packageName, message, clock))

\* createLogger(stack, packageName).warn(message)
warn(U) ==
    /\ Len(calls) < U.calls
    /\ \E stack \in U.stacks, packageName \in U.packages, message \in U.messages :
           LET h == createLogger(stack, packageName)
               m == handle_warn(message)
           IN  Begin(Frame("warn", <<h>>, message, m.echo, h.stack, m.level,
                           h.packageName, message, clock))

\* createLogger(stack, packageName).error(message)
error(U) ==
    /\ Len(calls) < U.calls
    /\ \E stack \in U.stacks, packageName \in U.packages, message \in U.messages :
           LET h == createLogger(stack, packageName)
               m == handle_error(message)
           IN  Begin(Frame("error", <<h>>, message, m.echo, h.stack, m.level,
                           h.packageName, message, clock))

\* createLogger(stack, packageName).fatal(message)
fatal(U) ==
    /\ Len(calls) < U.calls
    /\ \E stack \in U.stacks, packageName \in U.packages, message \in U.messages :
           LET h == createLogger(stack, packageName)
               m == handle_fatal(message)
           IN  Begin(Frame("fatal", <<h>>, message, m.echo, h.stack, m.level,
                           h.packageName, message, clock))

\* A call resumes with the segment result r.
Resume(c, r) ==
    /\ calls' = [calls EXCEPT ![c] = Advance(@, r, clock)]
    /\ UNCHANGED <<ACCESS_TOKEN, clock, requests>>

\* The endpoint answers the POST of call c: the fetch promise is fulfilled.
fetch_fulfilled(U) ==
    \E c \in DOMAIN calls, status \in U.statuses :
        /\ calls[c].pc = "awaitFetch"
        /\ calls' = [calls EXCEPT ![c] =
               Advance([@ EXCEPT !.response = <<status>>],
                       logEvent_response([status |-> status]), clock)]
        /\ UNCHANGED <<ACCESS_TOKEN, clock, requests>>

\* The POST of call c fails on the network: the fetch promise is rejected.
fetch_rejected ==
    \E c \in DOMAIN calls, e \in FetchErrors :
        /\ calls[c].pc = "awaitFetch"
        /\ Resume(c, logEvent_catch(e))

\* The body of the response has been read.
text_fulfilled ==
    \E c \in DOMAIN calls, errorText \in ErrorTexts :
        /\ calls[c].pc = "awaitText"
        /\ Resume(c, logEvent_text(errorText))

\* Reading the body of the response fails.
text_rejected ==
    \E c \in DOMAIN calls, e \in TextErrors :
        /\ calls[c].pc = "awaitText"
        /\ Resume(c, logEvent_catch(e))

\* Time passes.
Tick ==
    /\ clock < MaxTicks
    /\ clock' = clock + 1
    /\ UNCHANGED <<ACCESS_TOKEN, calls, requests>>

Step(U) ==
    \/ logEvent(U)
    \/ debug(U)
    \/ info(U)
    \/ warn(U)
    \/ error(U)
    \/ fatal(U)
    \/ fetch_fulfilled(U)
    \/ fetch_rejected
    \/ text_fulfilled
    \/ text_rejected

\* Calls over every input
Next == Step(Wide)

Spec == Init /\ [][Next]_vars

\* Concurrent calls
NextConc == Step(Narrow)

SpecConc == Init /\ [][NextConc]_vars

\* A handle method and a logEvent call side by side
NextPair == Step(Paired)

SpecPair == Init /\ [][NextPair]_vars

\* Calls while time passes
NextTime == Step(Timed) \/ Tick

SpecTime == Init /\ [][NextTime]_vars

----------------------------------------------------------------------------
(* Vocabulary of the properties, stated from the contract of the module   *)

Range(seq) == {seq[i] : i \in DOMAIN seq}

ValidStacks == {"backend", "frontend"}

ValidLevels == {"debug", "info", "warn", "error", "fatal"}

AllowedPackages(stack) ==
    CASE stack = "backend" -> Range(ALLOWED_PACKAGES.backend)
      [] stack = "frontend" -> Range(ALLOWED_PACKAGES.frontend)
      [] OTHER -> {}

FieldsValid(call) ==
    /\ call.stack \in ValidStacks
    /\ call.level \in ValidLevels
    /\ call.packageName \in AllowedPackages(call.stack)

CredentialPresent == ACCESS_TOKEN # undefined /\ ACCESS_TOKEN # <<"">>

\* The requests call c handed to fetch, and those of them that are POSTs to the endpoint
Fetches(c) == SelectSeq(requests, LAMBDA r : r.call = c)

POSTs(c) ==
    SelectSeq(requests, LAMBDA r : /\ r.call = c
                                   /\ r.init.method = "POST"
                                   /\ r.url = EVALUATION_SERVICE_URL)

Body(request) == JSON_parse(request.init.body)

\* The four fields of the body that come from the arguments of the call
BodyFields(request) ==
    [k \in {"stack", "level", "package", "message"} |-> Body(request)[k]]

ArgFields(call) ==
    [k \in {"stack", "level", "package", "message"} |->
        CASE k = "stack" -> call.stack
          [] k = "level" -> call.level
          [] k = "package" -> call.packageName
          [] OTHER -> call.message]

IsConsole(e) == e.op \in {"console.error", "console.warn"}

\* The console echo of a handle method, and the diagnostics of logEvent
IsEcho(e) == IsConsole(e) /\ e.args[1] \in {"[WARN] ", "[ERROR] ", "[FATAL] "}

Diags(call) == SelectSeq(call.trace, LAMBDA e : IsConsole(e) /\ ~IsEcho(e))

Awaits(call) == SelectSeq(call.trace, LAMBDA e : e.op = "await")

HasDiag(call, prefix) ==
    \E i \in DOMAIN Diags(call) : Diags(call)[i].args[1] = prefix

NoToken == "ACCESS_TOKEN not found in environment variables"

\* The diagnostics with which a call is turned away before any POST
RejectionDiags(call) ==
    SelectSeq(Diags(call), LAMBDA e : e.args[1] \in
        {"Invalid stack: ", "Invalid level: ", "Invalid package: ", NoToken})

\* The first check, in the order stack, level, package, credential, that the
\* call fails ("" if it passes them all)
FirstFailure(call) ==
    IF call.stack \notin ValidStacks THEN "Invalid stack: "
    ELSE IF call.level \notin ValidLevels THEN "Invalid level: "
    ELSE IF call.packageName \notin AllowedPackages(call.stack) THEN "Invalid package: "
    ELSE IF ~CredentialPresent THEN NoToken
    ELSE ""

NonSuccess(call) ==
    call.response # <<>> /\ ~(call.response[1] >= 200 /\ call.response[1] <= 299)

Direct(call) == call.handle = NoHandle

----------------------------------------------------------------------------
(* C1: a POST has been issued for a call only if its stack is backend or   *)
(* frontend, its level is one of the five levels and its package is in the *)
(* allow-list of that same stack.                                          *)
C1_PostOnlyIfValid ==
    /\ \A i \in DOMAIN requests : FieldsValid(calls[requests[i].call])
    /\ \A c \in DOMAIN calls :
           fetched(calls[c].trace) # <<>> => FieldsValid(calls[c])

C1_Witness ==
    \E i \in DOMAIN requests :
        /\ requests[i].init.method = "POST"
        /\ calls[requests[i].call].stack = "frontend"
        /\ calls[requests[i].call].packageName = "page"

(* C2: a call with three valid fields and the credential present issues    *)
(* exactly one POST over its whole life, whatever the endpoint does; the   *)
(* body carries stack, level, package and message equal to the arguments   *)
(* and a timestamp no earlier than the start of the call and no later than *)
(* its completion.                                                         *)
C2_ExactlyOnePost ==
    \A c \in DOMAIN calls :
        FieldsValid(calls[c]) /\ CredentialPresent =>
            /\ Len(Fetches(c)) = 1
            /\ Len(POSTs(c)) = 1
            /\ DOMAIN Body(POSTs(c)[1]) =
                   {"stack", "level", "package", "message", "timestamp"}
            /\ BodyFields(POSTs(c)[1]) = ArgFields(calls[c])
            /\ Date_now(calls[c].started) <= Date_parse(Body(POSTs(c)[1])["timestamp"])
            /\ calls[c].completed # <<>> =>
                   Date_parse(Body(POSTs(c)[1])["timestamp"])
                       <= Date_now(calls[c].completed[1])

C2_Witness ==
    \E c \in DOMAIN calls :
        /\ FieldsValid(calls[c]) /\ CredentialPresent
        /\ calls[c].started > 0
        /\ calls[c].pc = "returned"
        /\ calls[c].completed[1] > calls[c].started
        /\ HasDiag(calls[c], "Error sending log to evaluation service:")
        /\ Len(POSTs(c)) = 1

(* C3: every call of logEvent and of a handle method ends fulfilled, never *)
(* rejected and never throwing, for each failure kind: invalid stack,      *)
(* level or package, missing credential, non-success status, network       *)
(* exception, failure while reading the body of a non-success response.    *)
C3_NeverRejects ==
    \A c \in DOMAIN calls :
        /\ calls[c].pc # "threw"
        /\ calls[c].promise # "rejected"
        /\ callerPromise(calls[c]) # "rejected"
        /\ callerPromise(calls[c]) = "pending" =>
               calls[c].pc \in {"awaitFetch", "awaitText"}
        /\ RejectionDiags(calls[c]) # <<>> => callerPromise(calls[c]) = "fulfilled"
        /\ HasDiag(calls[c], "Error sending log to evaluation service:") =>
               callerPromise(calls[c]) = "fulfilled"
        /\ NonSuccess(calls[c]) /\ calls[c].pc # "awaitText" =>
               callerPromise(calls[c]) = "fulfilled"

C3_Witness ==
    \E c \in DOMAIN calls :
        /\ ~Direct(calls[c])
        /\ NonSuccess(calls[c])
        /\ HasDiag(calls[c], "Error sending log to evaluation service:")
        /\ callerPromise(calls[c]) = "fulfilled"

(* C4: with the credential absent no POST is ever issued and validation    *)
(* still runs: an invalid stack, level or package gets its validation      *)
(* diagnostic, not the missing-credential one, and a call with three valid *)
(* fields gets the missing-credential diagnostic.                          *)
C4_NoCredentialNoPost ==
    ~CredentialPresent =>
        /\ requests = <<>>
        /\ \A c \in DOMAIN calls :
               /\ fetched(calls[c].trace) = <<>>
               /\ Len(Diags(calls[c])) = 1
               /\ IF FieldsValid(calls[c])
                  THEN Diags(calls[c])[1].args = <<NoToken>>
                  ELSE Diags(calls[c])[1].args[1] \in
                           {"Invalid stack: ", "Invalid level: ", "Invalid package: "}

C4_Witness ==
    /\ ACCESS_TOKEN = <<"">>
    /\ \E c \in DOMAIN calls :
           FieldsValid(calls[c]) /\ Diags(calls[c])[1].args = <<NoToken>>

(* C5: when the endpoint answers with a non-2xx status the call resolves   *)
(* normally and a diagnostic with the status code is emitted before the    *)
(* call completes, also when reading the response body then fails.         *)
C5_StatusLogged ==
    \A c \in DOMAIN calls :
        NonSuccess(calls[c]) =>
            /\ \E i \in DOMAIN calls[c].trace :
                   /\ calls[c].trace[i].op = "console.error"
                   /\ calls[c].trace[i].args[1] = "Logging failed: "
                   /\ calls[c].trace[i].args[2] = calls[c].response[1]
                   /\ \A j \in DOMAIN calls[c].trace :
                          calls[c].trace[j] = await("response.text") => i < j
            /\ calls[c].pc \in {"awaitText", "returned"}
            /\ calls[c].pc = "returned" => callerPromise(calls[c]) = "fulfilled"
            /\ callerPromise(calls[c]) # "rejected"

C5_Witness ==
    \E c \in DOMAIN calls :
        /\ NonSuccess(calls[c])
        /\ calls[c].pc = "returned"
        /\ HasDiag(calls[c], "Error sending log to evaluation service:")

(* C6: warn, error and fatal of a handle echo the message to the console   *)
(* before any validation diagnostic or POST of the call, on every call,    *)
(* also one that is then turned away; debug and info do not echo.          *)
C6_EchoFirst ==
    \A c \in DOMAIN calls :
        ~Direct(calls[c]) =>
            IF calls[c].api \in {"warn", "error", "fatal"}
            THEN /\ Len(calls[c].trace) >= 2
                 /\ IsEcho(calls[c].trace[1])
                 /\ calls[c].trace[1].args[2] = calls[c].arg
                 /\ \A i \in 2..Len(calls[c].trace) : ~IsEcho(calls[c].trace[i])
            ELSE \A i \in DOMAIN calls[c].trace : ~IsEcho(calls[c].trace[i])

C6_Witness ==
    \E c \in DOMAIN calls :
        /\ calls[c].api = "fatal"
        /\ ~Direct(calls[c])
        /\ IsEcho(calls[c].trace[1])
        /\ RejectionDiags(calls[c]) # <<>>

(* C7: a method L of a handle created for (stack, packageName) has the     *)
(* validation result, the number of POSTs and the POST body fields of      *)
(* logEvent(stack, L, packageName, message); it is never turned away for   *)
(* its level, and stack and package are the ones fixed at creation.        *)
C7_HandleAsLogEvent ==
    \A c \in DOMAIN calls :
        ~Direct(calls[c]) =>
            /\ calls[c].stack = calls[c].handle[1].stack
            /\ calls[c].packageName = calls[c].handle[1].packageName
            /\ calls[c].level = calls[c].api
            /\ calls[c].message = calls[c].arg
            /\ ~HasDiag(calls[c], "Invalid level: ")
            /\ \A i \in DOMAIN POSTs(c) :
                   BodyFields(POSTs(c)[i]) =
                       [stack |-> calls[c].handle[1].stack, level |-> calls[c].api,
                        package |-> calls[c].handle[1].packageName,
                        message |-> calls[c].arg]
            /\ \A d \in DOMAIN calls :
                   /\ Direct(calls[d])
                   /\ calls[d].stack = calls[c].handle[1].stack
                   /\ calls[d].level = calls[c].api
                   /\ calls[d].packageName = calls[c].handle[1].packageName
                   /\ calls[d].message = calls[c].arg
                   => /\ RejectionDiags(calls[c]) = RejectionDiags(calls[d])
                      /\ Len(POSTs(c)) = Len(POSTs(d))
                      /\ \A i \in DOMAIN POSTs(c) :
                             BodyFields(POSTs(c)[i]) = BodyFields(POSTs(d)[i])

C7_Witness ==
    \E c, d \in DOMAIN calls :
        /\ calls[c].api = "warn" /\ ~Direct(calls[c])
        /\ Direct(calls[d])
        /\ ArgFields(calls[d]) = ArgFields(calls[c])
        /\ Len(POSTs(c)) = 1
        /\ Len(POSTs(d)) = 1

(* C8: concurrent calls are independent: under any interleaving of their   *)
(* suspensions and of the answers of the endpoint each call has the        *)
(* outcome it has alone (turned away, or one POST with its own payload),   *)
(* and the POSTs are as many as the calls that pass validation with the    *)
(* credential present.                                                     *)
C8_Independent ==
    /\ Len(requests) =
           Cardinality({c \in DOMAIN calls : FieldsValid(calls[c]) /\ CredentialPresent})
    /\ \A i \in DOMAIN requests :
           /\ requests[i].call \in DOMAIN calls
           /\ BodyFields(requests[i]) = ArgFields(calls[requests[i].call])
    /\ \A c \in DOMAIN calls :
           IF FirstFailure(calls[c]) = ""
           THEN /\ Len(POSTs(c)) = 1
                /\ RejectionDiags(calls[c]) = <<>>
           ELSE /\ Len(Fetches(c)) = 0
                /\ calls[c].pc = "returned"
                /\ Len(Diags(calls[c])) = 1
                /\ Diags(calls[c])[1].args[1] = FirstFailure(calls[c])

C8_Witness ==
    /\ Len(calls) = 2
    /\ calls[1].pc = "awaitFetch"
    /\ calls[2].pc = "returned"
    /\ NonSuccess(calls[2])
    /\ calls[1].message # calls[2].message
    /\ Len(requests) = 2

(* C9 as stated: a call that issues the POST suspends only while waiting   *)
(* for the response or failure of that POST, after which it completes; a   *)
(* call that is turned away never suspends.                                *)
C9_SuspendsOnlyAtPost ==
    \A c \in DOMAIN calls :
        /\ fetched(calls[c].trace) = <<>> => Awaits(calls[c]) = <<>>
        /\ \A i \in DOMAIN Awaits(calls[c]) : Awaits(calls[c])[i] = await("fetch")
        /\ calls[c].response # <<>> => calls[c].pc = "returned"

(* C9 as it holds: a call that is turned away never suspends; a call that *)
(* issues the POST suspends while waiting for the response or failure of   *)
(* that POST and, only if the response is non-2xx, once more while the     *)
(* body of that response is read; then it completes.                       *)
C9_SuspendsAtPostAndBody ==
    \A c \in DOMAIN calls :
        /\ calls[c].pc \in {"awaitFetch", "awaitText", "returned"}
        /\ fetched(calls[c].trace) = <<>> =>
               Awaits(calls[c]) = <<>> /\ calls[c].pc = "returned"
        /\ fetched(calls[c].trace) # <<>> =>
               Awaits(calls[c]) = IF NonSuccess(calls[c])
                                  THEN <<await("fetch"), await("response.text")>>
                                  ELSE <<await("fetch")>>
        /\ calls[c].pc = "awaitFetch" =>
               calls[c].response = <<>>
               /\ calls[c].trace[Len(calls[c].trace)] = await("fetch")
        /\ calls[c].pc = "awaitText" =>
               NonSuccess(calls[c])
               /\ calls[c].trace[Len(calls[c].trace)] = await("response.text")
        /\ calls[c].response # <<>> /\ ~NonSuccess(calls[c]) => calls[c].pc = "returned"

C9_Witness ==
    \E c \in DOMAIN calls :
        /\ calls[c].pc = "returned"
        /\ Awaits(calls[c]) = <<await("fetch"), await("response.text")>>
        /\ HasDiag(calls[c], "Response:")

(* C10: the checks run in the order stack, level, package, credential and  *)
(* stop at the first failure: a call that is turned away emits exactly one *)
(* diagnostic, naming the first failing check and the offending value.     *)
C10_FirstFailureOnly ==
    \A c \in DOMAIN calls :
        FirstFailure(calls[c]) # "" =>
            /\ calls[c].pc = "returned"
            /\ fetched(calls[c].trace) = <<>>
            /\ Len(Diags(calls[c])) = 1
            /\ Diags(calls[c])[1].op = "console.error"
            /\ Diags(calls[c])[1].args[1] = FirstFailure(calls[c])
            /\ FirstFailure(calls[c]) = "Invalid stack: " =>
                   Diags(calls[c])[1].args =
                       <<"Invalid stack: ", calls[c].stack, ". Allowed: ",
                         <<"backend", "frontend">>>>
            /\ FirstFailure(calls[c]) = "Invalid level: " =>
                   Diags(calls[c])[1].args =
                       <<"Invalid level: ", calls[c].level, ". Allowed: ",
                         <<"debug", "info", "warn", "error", "fatal">>>>
            /\ FirstFailure(calls[c]) = "Invalid package: " =>
                   /\ Diags(calls[c])[1].args[2] = calls[c].packageName
                   /\ Diags(calls[c])[1].args[4] = calls[c].stack
                   /\ Range(Diags(calls[c])[1].args[6][1]) =
                          AllowedPackages(calls[c].stack)

C10_Witness ==
    \E c \in DOMAIN calls :
        /\ calls[c].stack = "mobile"
        /\ calls[c].level = "trace"
        /\ calls[c].packageName = "billing"
        /\ ~CredentialPresent
        /\ Len(Diags(calls[c])) = 1
        /\ Diags(calls[c])[1].args[1] = "Invalid stack: "

====
